---- MODULE Spec2Model ----
(***************************************************************************)
(* UserController (controllers/UserController.ts): the singleton REST      *)
(* controller of the users resource.  getInstance(app) binds ten routes on *)
(* an Express application; each handler issues one UserDao call and, when  *)
(* the returned promise resolves, writes the resolved value with res.json. *)
(*                                                                         *)
(* UserDao (../daos/UserDao) is not part of the sources at hand: the store *)
(* operations below follow the collaborator interface of the design        *)
(* document (section 6).  Express is the host framework: route tables,     *)
(* first-match dispatch, and what happens to a promise a handler returns   *)
(* and that rejects.                                                       *)
(***************************************************************************)
EXTENDS Integers, Sequences, FiniteSets, TLC

VARIABLES
    userDao,         \* UserController.userDao: the shared store reference
    userController,  \* UserController.userController: the singleton, or NULL
    instances,       \* how many UserController objects were constructed
    routes,          \* per Express app: the route bindings, in binding order
    initCalls,       \* how many getInstance calls returned so far
    lastInit,        \* the last getInstance call: its app, result, bindings added
    store,           \* the store's content: a set of user records
    nextId,          \* the store's next identity
    reqs,            \* the requests, in arrival order
    log              \* the events so far: start, effect, end of each request

vars == <<userDao, userController, instances, routes, initCalls, lastInit,
          store, nextId, reqs, log>>

ctrlVars == <<userDao, userController, instances, routes, initCalls, lastInit>>

(* ------------------------------ bounds --------------------------------- *)

\* Requests of a run with every kind of request.
MaxRequests == 1
\* Requests of a run in which creates and delete-alls overlap.
MaxRaceRequests == 2
\* Requests of a run in which each request starts after the previous ended.
MaxSerialRequests == 3
\* getInstance calls of a run.
MaxInitCalls == 2

NULL == "null"
Apps == {"A", "B"}

Usernames == {"bob", "amy"}
Types == {"standard", "business"}
Rids == {"r1", "r2"}
\* Request bodies: user fields without an id.
Bodies ==
    { [username |-> "bob", type |-> "standard", restaurant |-> "r1"],
      [username |-> "amy", type |-> "business", restaurant |-> "r2"] }
NoBody == [empty |-> TRUE]
\* What the store holds when the process starts: nothing, or users created
\* by earlier runs, with the identities the store gave them.
SeedStores ==
    { {},
      { [id |-> "1", username |-> "bob", type |-> "standard", restaurant |-> "r1"],
        [id |-> "2", username |-> "amy", type |-> "standard", restaurant |-> "r2"] } }
IdParams == {"1", "2"}

(* ------------------------- getInstance (39-55) ------------------------- *)

ParamSegs == {":userid", ":username", ":type", ":rid"}

\* The bindings with the handlers of two routes exchanged.
RouteBindings_Swapped ==
    << [method |-> "GET",    path |-> <<"api", "users">>,
        handler |-> "findAllUsers"],
       [method |-> "GET",    path |-> <<"api", "users", ":userid">>,
        handler |-> "findUserById"],
       [method |-> "POST",   path |-> <<"api", "users">>,
        handler |-> "createUser"],
       [method |-> "PUT",    path |-> <<"api", "users", ":userid">>,
        handler |-> "updateUser"],
       [method |-> "DELETE", path |-> <<"api", "users", ":userid">>,
        handler |-> "deleteUser"],
       [method |-> "DELETE", path |-> <<"api", "users">>,
        handler |-> "deleteAllUsers"],
       [method |-> "DELETE", path |-> <<"api", "users", "username", ":username", "delete">>,
        handler |-> "deleteUsersByUsername"],
       [method |-> "GET",    path |-> <<"api", "users", "type", ":type">>,
        handler |-> "findUsersByRestaurant"],
       [method |-> "GET",    path |-> <<"api", "users", "business", ":rid">>,
        handler |-> "findUsersByType"],
       [method |-> "DELETE", path |-> <<"api", "users", "business", ":rid">>,
        handler |-> "deleteUsersByRestaurant"] >>

\* The ten app.<method>(path, handler) calls of getInstance, in order.
RouteBindings ==
    << [method |-> "GET",    path |-> <<"api", "users">>,
        handler |-> "findAllUsers"],
       [method |-> "GET",    path |-> <<"api", "users", ":userid">>,
        handler |-> "findUserById"],
       [method |-> "POST",   path |-> <<"api", "users">>,
        handler |-> "createUser"],
       [method |-> "PUT",    path |-> <<"api", "users", ":userid">>,
        handler |-> "updateUser"],
       [method |-> "DELETE", path |-> <<"api", "users", ":userid">>,
        handler |-> "deleteUser"],
       [method |-> "DELETE", path |-> <<"api", "users">>,
        handler |-> "deleteAllUsers"],
       [method |-> "DELETE", path |-> <<"api", "users", "username", ":username", "delete">>,
        handler |-> "deleteUsersByUsername"],
       [method |-> "GET",    path |-> <<"api", "users", "type", ":type">>,
        handler |-> "findUsersByType"],
       [method |-> "GET",    path |-> <<"api", "users", "business", ":rid">>,
        handler |-> "findUsersByRestaurant"],
       [method |-> "DELETE", path |-> <<"api", "users", "business", ":rid">>,
        handler |-> "deleteUsersByRestaurant"] >>

\* new UserController(): the n-th object constructed.
Instance(n) == "UserController#" \o ToString(n)

MustCreate_Always(app) == TRUE
MustCreate_PerApp(app) == routes[app] = <<>>
MustCreate_OnOtherApp(app) == userController = NULL \/ lastInit.app # app

\* The guard of getInstance: the singleton is created when the static is null.
MustCreate(app) == userController = NULL

\* getInstance(app): on the first call construct the controller and bind the
\* ten routes on app; always return the static.
getInstance(app) ==
    /\ initCalls < MaxInitCalls
    /\ IF MustCreate(app)
       THEN /\ instances' = instances + 1
            /\ userController' = Instance(instances + 1)
            /\ routes' = [routes EXCEPT ![app] =
                             @ \o [i \in 1..Len(RouteBindings) |->
                                      [method  |-> RouteBindings[i].method,
                                       path    |-> RouteBindings[i].path,
                                       handler |-> RouteBindings[i].handler,
                                       inst    |-> Instance(instances + 1)]]]
            /\ lastInit' = [app |-> app, ret |-> Instance(instances + 1),
                            bound |-> Len(RouteBindings)]
       ELSE /\ UNCHANGED <<instances, userController, routes>>
            /\ lastInit' = [app |-> app, ret |-> userController, bound |-> 0]
    /\ initCalls' = initCalls + 1
    /\ UNCHANGED <<userDao, store, nextId, reqs, log>>

(* --------------------------- the store (UserDao) ----------------------- *)

Users(set) == [kind |-> "users", v |-> set]   \* a JSON array of users
User(u) == [kind |-> "user", v |-> u]         \* one user
NullValue == [kind |-> "null"]                \* the store's "not found"
Status(n) == [kind |-> "status", count |-> n] \* an update or delete result

WithFields(u, body) ==
    [id |-> u.id, username |-> body.username, type |-> body.type,
     restaurant |-> body.restaurant]

\* The effect of a store call that succeeds, on content s with next identity n:
\* the value its promise resolves with and the new content.
DaoApply(call, s, n) ==
    CASE call.op = "findAllUsers" ->
           [value |-> Users(s), store |-> s, nextId |-> n]
      [] call.op = "findUserById" ->
           [value |-> IF \E u \in s : u.id = call.key
                      THEN User(CHOOSE u \in s : u.id = call.key)
                      ELSE NullValue,
            store |-> s, nextId |-> n]
      [] call.op = "createUser" ->
           LET u == WithFields([id |-> ToString(n)], call.body)
           IN  [value |-> User(u), store |-> s \cup {u}, nextId |-> n + 1]
      [] call.op = "updateUser" ->
           LET hit == {u \in s : u.id = call.key}
           IN  [value |-> Status(Cardinality(hit)),
                store |-> (s \ hit) \cup {WithFields(u, call.body) : u \in hit},
                nextId |-> n]
      [] call.op = "deleteUser" ->
           LET hit == {u \in s : u.id = call.key}
           IN  [value |-> Status(Cardinality(hit)), store |-> s \ hit, nextId |-> n]
      [] call.op = "deleteAllUsers" ->
           [value |-> Status(Cardinality(s)), store |-> {}, nextId |-> n]
      [] call.op = "deleteUsersByUsername" ->
           LET hit == {u \in s : u.username = call.key}
           IN  [value |-> Status(Cardinality(hit)), store |-> s \ hit, nextId |-> n]
      [] call.op = "findUsersByType" ->
           [value |-> Users({u \in s : u.type = call.key}), store |-> s, nextId |-> n]
      [] call.op = "findUsersByRestaurant" ->
           [value |-> Users({u \in s : u.restaurant = call.key}),
            store |-> s, nextId |-> n]
      [] call.op = "deleteUsersByRestaurant" ->
           LET hit == {u \in s : u.restaurant = call.key}
           IN  [value |-> Status(Cardinality(hit)), store |-> s \ hit, nextId |-> n]

(* --------------------------- handlers (64-171) ------------------------- *)

\* req.params.<name>; a parameter the matched path does not have is undefined.
Param(req, name) ==
    IF name \in DOMAIN req.params THEN req.params[name] ELSE "undefined"

DaoCall(op, key, body) == [op |-> op, key |-> key, body |-> body]

\* Handlers that read the wrong request parameter or call the wrong method.
findUserById_WrongParam(req) == DaoCall("findUserById", Param(req, ":username"), NoBody)
deleteAllUsers_WrongCall(req) == DaoCall("deleteUser", Param(req, ":userid"), NoBody)
deleteUsersByUsername_WrongParam(req) ==
    DaoCall("deleteUsersByUsername", Param(req, ":userid"), NoBody)

\* Each handler: the UserDao call it issues for request req.
findAllUsers(req) == DaoCall("findAllUsers", NULL, NoBody)
findUserById(req) == DaoCall("findUserById", Param(req, ":userid"), NoBody)
createUser(req) == DaoCall("createUser", NULL, req.body)
updateUser(req) == DaoCall("updateUser", Param(req, ":userid"), req.body)
deleteUser(req) == DaoCall("deleteUser", Param(req, ":userid"), NoBody)
deleteAllUsers(req) == DaoCall("deleteAllUsers", NULL, NoBody)
deleteUsersByUsername(req) ==
    DaoCall("deleteUsersByUsername", Param(req, ":username"), NoBody)
findUsersByType(req) == DaoCall("findUsersByType", Param(req, ":type"), NoBody)
findUsersByRestaurant(req) ==
    DaoCall("findUsersByRestaurant", Param(req, ":rid"), NoBody)
deleteUsersByRestaurant(req) ==
    DaoCall("deleteUsersByRestaurant", Param(req, ":rid"), NoBody)

\* The handler function a route binding names, applied to req.
Invoke(handler, req) ==
    CASE handler = "findAllUsers" -> findAllUsers(req)
      [] handler = "findUserById" -> findUserById(req)
      [] handler = "createUser" -> createUser(req)
      [] handler = "updateUser" -> updateUser(req)
      [] handler = "deleteUser" -> deleteUser(req)
      [] handler = "deleteAllUsers" -> deleteAllUsers(req)
      [] handler = "deleteUsersByUsername" -> deleteUsersByUsername(req)
      [] handler = "findUsersByType" -> findUsersByType(req)
      [] handler = "findUsersByRestaurant" -> findUsersByRestaurant(req)
      [] handler = "deleteUsersByRestaurant" -> deleteUsersByRestaurant(req)

resJson_Wrapped(value) == [status |-> 200, body |-> [kind |-> "data", v |-> value]]

\* The .then callback of every handler: value => res.json(value).
resJson(value) == [status |-> 200, body |-> value]

(* ----------------------- the host framework ---------------------------- *)

ServerError == [status |-> 500, body |-> [kind |-> "error"]]

\* A route path matches a request path segment by segment; a :name segment
\* matches any one segment.
Match(pattern, path) ==
    /\ Len(pattern) = Len(path)
    /\ \A i \in 1..Len(pattern) : pattern[i] \in ParamSegs \/ pattern[i] = path[i]

PathParams(pattern, path) ==
    [name \in {pattern[i] : i \in {j \in 1..Len(pattern) : pattern[j] \in ParamSegs}} |->
        path[CHOOSE i \in 1..Len(pattern) : pattern[i] = name]]

Matching(app, method, path) ==
    {i \in 1..Len(routes[app]) :
        routes[app][i].method = method /\ Match(routes[app][i].path, path)}

\* The binding a request is dispatched to: the first that matches, 0 if none.
FirstMatch(app, method, path) ==
    IF Matching(app, method, path) = {} THEN 0
    ELSE CHOOSE i \in Matching(app, method, path) :
            \A j \in Matching(app, method, path) : i <= j

(* ------------------------------ requests ------------------------------- *)

UsersPath == <<"api", "users">>

Target(method, path, body) == [method |-> method, path |-> path, body |-> body]

\* What clients send: the ten kinds of request of the API.
Targets ==
    {Target("GET", UsersPath, NoBody), Target("DELETE", UsersPath, NoBody)}
    \cup {Target("POST", UsersPath, b) : b \in Bodies}
    \cup {Target(m, UsersPath \o <<id>>, NoBody) : m \in {"GET", "DELETE"}, id \in IdParams}
    \cup {Target("PUT", UsersPath \o <<id>>, b) : id \in IdParams, b \in Bodies}
    \cup {Target("DELETE", UsersPath \o <<"username", u, "delete">>, NoBody) : u \in Usernames}
    \cup {Target("GET", UsersPath \o <<"type", t>>, NoBody) : t \in Types}
    \cup {Target(m, UsersPath \o <<"business", r>>, NoBody) : m \in {"GET", "DELETE"}, r \in Rids}

Event(ev, r) == [ev |-> ev, r |-> r]

InFlight == {r \in 1..Len(reqs) : reqs[r].state \in {"pending", "resolved", "rejected"}}

\* A request arrives at app and the framework dispatches it to the first
\* binding that matches, whose handler issues its store call before it
\* returns.  A request no binding of the controller matches never reaches
\* the controller: it is no request of this model.
Arrive(app, t) ==
    LET i == FirstMatch(app, t.method, t.path)
        r == Len(reqs) + 1
    IN  /\ i # 0
        /\ LET b == routes[app][i]
               req == [app |-> app, method |-> t.method, path |-> t.path,
                       body |-> t.body, params |-> PathParams(b.path, t.path)]
           IN  reqs' = Append(reqs,
                          req @@
                          [handler |-> b.handler, inst |-> b.inst,
                           calls |-> <<Invoke(b.handler, req)>>,
                           state |-> "pending",
                           value |-> NullValue, responses |-> <<>>])
        /\ log' = Append(log, Event("start", r))
        /\ UNCHANGED <<ctrlVars, store, nextId>>

\* Requests arrive whenever clients send them.
Request(app, t) ==
    /\ Len(reqs) < MaxRequests
    /\ Arrive(app, t)

\* Clients that create users and delete all users, and list them.
RaceTargets == {t \in Targets : t.path = UsersPath}
RaceRequest(app, t) ==
    /\ Len(reqs) < MaxRaceRequests
    /\ Arrive(app, t)

\* A client that waits for each answer before it sends the next request.
SerialRequest(app, t) ==
    /\ Len(reqs) < MaxSerialRequests
    /\ InFlight = {}
    /\ Arrive(app, t)

\* Store calls held back until the calls of earlier requests took effect.
CanTakeEffect_InArrivalOrder(r) ==
    /\ reqs[r].state = "pending"
    /\ \A q \in 1..(r - 1) : reqs[q].state # "pending"

\* A pending store call can take effect: the controller holds no lock and
\* orders nothing.
CanTakeEffect(r) == reqs[r].state = "pending"

\* The store call of request r succeeds: its effect on the store, and the
\* promise resolves.
DaoResolve(r) ==
    /\ CanTakeEffect(r)
    /\ LET res == DaoApply(reqs[r].calls[1], store, nextId)
       IN  /\ store' = res.store
           /\ nextId' = res.nextId
           /\ reqs' = [reqs EXCEPT ![r].state = "resolved", ![r].value = res.value]
    /\ log' = Append(log, Event("effect", r))
    /\ UNCHANGED ctrlVars

\* The store call of request r fails: the promise rejects, the store is as it was.
DaoReject(r) ==
    /\ CanTakeEffect(r)
    /\ reqs' = [reqs EXCEPT ![r].state = "rejected"]
    /\ log' = Append(log, Event("effect", r))
    /\ UNCHANGED <<ctrlVars, store, nextId>>

\* The .then callback of the handler runs.
ThenCallback(r) ==
    /\ reqs[r].state = "resolved"
    /\ reqs' = [reqs EXCEPT ![r].state = "responded",
                            ![r].responses = Append(@, resJson(reqs[r].value))]
    /\ log' = Append(log, Event("end", r))
    /\ UNCHANGED <<ctrlVars, store, nextId>>

\* The handlers attach no rejection callback and call no next(err).  A
\* framework that awaits the promise a handler returns answers 500.
FrameworkCatches(r) ==
    /\ reqs[r].state = "rejected"
    /\ reqs' = [reqs EXCEPT ![r].state = "errored",
                            ![r].responses = Append(@, ServerError)]
    /\ log' = Append(log, Event("end", r))
    /\ UNCHANGED <<ctrlVars, store, nextId>>

\* A framework that ignores what a handler returns leaves the rejection
\* unhandled: nothing is ever written to the response.
UnhandledRejection(r) ==
    /\ reqs[r].state = "rejected"
    /\ reqs' = [reqs EXCEPT ![r].state = "unhandled"]
    /\ log' = Append(log, Event("end", r))
    /\ UNCHANGED <<ctrlVars, store, nextId>>

Requests == 1..Len(reqs)

Init ==
    /\ userDao = "UserDao"
    /\ userController = NULL
    /\ instances = 0
    /\ routes = [a \in Apps |-> <<>>]
    /\ initCalls = 0
    /\ lastInit = [app |-> NULL, ret |-> NULL, bound |-> 0]
    /\ store \in SeedStores
    /\ nextId = Cardinality(store) + 1
    /\ reqs = <<>>
    /\ log = <<>>

\* Every kind of request, on either application, with store calls that
\* succeed or fail.
Next ==
    \/ \E app \in Apps : getInstance(app)
    \/ \E app \in Apps, t \in Targets : Request(app, t)
    \/ \E r \in Requests : DaoResolve(r)
    \/ \E r \in Requests : DaoReject(r)
    \/ \E r \in Requests : ThenCallback(r)
    \/ \E r \in Requests : FrameworkCatches(r)
    \/ \E r \in Requests : UnhandledRejection(r)

Spec == Init /\ [][Next]_vars

\* Creates, delete-alls and listings that overlap freely, with getInstance
\* calls at any time and a store whose calls succeed.
NextRace ==
    \/ \E app \in Apps : getInstance(app)
    \/ \E app \in Apps, t \in RaceTargets : RaceRequest(app, t)
    \/ \E r \in Requests : DaoResolve(r)
    \/ \E r \in Requests : ThenCallback(r)

SpecRace == Init /\ [][NextRace]_vars

\* The composition root sets up one application, once.
Setup(app) ==
    /\ userController = NULL
    /\ getInstance(app)

\* One application set up once, a client that sends one request at a time,
\* and a store whose calls succeed.
NextSerial ==
    \/ Setup("A")
    \/ \E t \in Targets : SerialRequest("A", t)
    \/ \E r \in Requests : DaoResolve(r)
    \/ \E r \in Requests : ThenCallback(r)

SpecSerial == Init /\ [][NextSerial]_vars

(* ======================= properties of the controller ================== *)

Pos(ev, r) ==
    IF \E i \in 1..Len(log) : log[i] = Event(ev, r)
    THEN CHOOSE i \in 1..Len(log) : log[i] = Event(ev, r)
    ELSE 0

Responded(r) == reqs[r].state = "responded"
Body(r) == reqs[r].responses[1].body

BoundApps == {a \in Apps : routes[a] # <<>>}
BoundPairs(a) == {<<routes[a][i].method, routes[a][i].path>> : i \in 1..Len(routes[a])}

\* The HTTP surface as the design document tabulates it (section 6), each
\* row with the store operation of the same row of section 4.1.
Row(method, path, op) == [method |-> method, path |-> path, op |-> op]
HttpSurface ==
    { Row("GET",    <<"users">>, "findAllUsers"),
      Row("GET",    <<"users", ":userid">>, "findUserById"),
      Row("POST",   <<"users">>, "createUser"),
      Row("PUT",    <<"users", ":userid">>, "updateUser"),
      Row("DELETE", <<"users", ":userid">>, "deleteUser"),
      Row("DELETE", <<"users">>, "deleteAllUsers"),
      Row("DELETE", <<"users", "username", ":username", "delete">>, "deleteUsersByUsername"),
      Row("GET",    <<"users", "type", ":type">>, "findUsersByType"),
      Row("GET",    <<"users", "business", ":rid">>, "findUsersByRestaurant"),
      Row("DELETE", <<"users", "business", ":rid">>, "deleteUsersByRestaurant") }
\* The same table with every path under /api.
ApiSurface == {Row(row.method, <<"api">> \o row.path, row.op) : row \in HttpSurface}

RowOf(method, path) ==
    CHOOSE row \in ApiSurface : row.method = method /\ Match(row.path, path)
\* The path parameter of a request of a row, NULL for a row without one.
KeyOf(row, path) ==
    IF \E i \in 1..Len(row.path) : row.path[i] \in ParamSegs
    THEN path[CHOOSE i \in 1..Len(row.path) : row.path[i] \in ParamSegs]
    ELSE NULL
TakesBody(row) == row.method \in {"POST", "PUT"}

\* What holds of the singleton and the route tables in every state.
C1_Initialized ==
    /\ userController = NULL =>
          initCalls = 0 /\ instances = 0 /\ BoundApps = {}
    /\ userController # NULL =>
          /\ initCalls >= 1
          /\ instances = 1
          /\ userController = Instance(1)
          /\ lastInit.ret = userController
          /\ lastInit.bound = (IF initCalls = 1 THEN 10 ELSE 0)
          /\ \E a \in Apps :
                /\ BoundApps = {a}
                /\ Len(routes[a]) = 10
                /\ Cardinality(BoundPairs(a)) = 10
\* C1: after any number of getInstance calls each of the ten routes is bound
\* exactly once, on one application; the first call binds all ten, a later
\* call binds nothing and returns the instance the first call made; the
\* controller goes from uninitialized to initialized once and never back.
C1_RoutesBoundOnce ==
    /\ []C1_Initialized
    /\ [][userController # NULL =>
            userController' = userController /\ routes' = routes]_vars
C1_Witness ==
    /\ initCalls >= 2
    /\ lastInit.bound = 0
    /\ lastInit.app \in BoundApps

\* C10: the singleton is keyed on the process, not on the application: a
\* getInstance call with another application than the first binds nothing on
\* it and returns the controller bound to the first; at most one application
\* ever has the user routes.
C10_KeyedOnProcess ==
    /\ Cardinality(BoundApps) <= 1
    /\ \A a \in Apps : \A i \in 1..Len(routes[a]) : routes[a][i].inst = userController
    /\ \A b \in Apps :
          (lastInit.app = b /\ BoundApps # {} /\ b \notin BoundApps) =>
             /\ routes[b] = <<>>
             /\ lastInit.bound = 0
             /\ lastInit.ret = userController
C10_Witness ==
    /\ lastInit.app = "B"
    /\ BoundApps = {"A"}
    /\ lastInit.ret = Instance(1)

\* C9: once the controller is initialized, no handler and no later
\* getInstance call changes the store reference, the singleton or the bound
\* routes.
C9_ControllerStateFrozen ==
    [][userController # NULL =>
          UNCHANGED <<userDao, userController, instances, routes>>]_vars
C9_Witness ==
    /\ initCalls >= 2
    /\ userDao = "UserDao"
    /\ \E r \in Requests :
          /\ Responded(r)
          /\ reqs[r].method = "POST"
          /\ Body(r).v \in store

\* C2: every request makes its handler issue exactly one store call, the one
\* of its route with the request's path parameter and body unchanged; when
\* the call resolves with a value the handler writes exactly one response,
\* whose body is that value; nothing is written before the call resolves.
C2_PassThrough ==
    \A r \in Requests :
       LET row == RowOf(reqs[r].method, reqs[r].path)
       IN  /\ Len(reqs[r].calls) = 1
           /\ reqs[r].calls[1].op = row.op
           /\ reqs[r].calls[1].key = KeyOf(row, reqs[r].path)
           /\ reqs[r].calls[1].body = (IF TakesBody(row) THEN reqs[r].body ELSE NoBody)
           /\ reqs[r].state \in {"pending", "resolved"} => reqs[r].responses = <<>>
           /\ Responded(r) =>
                 /\ reqs[r].responses = <<[status |-> 200, body |-> reqs[r].value]>>
                 /\ 0 < Pos("effect", r)
                 /\ Pos("effect", r) < Pos("end", r)
C2_Witness ==
    \E r \in Requests :
       /\ reqs[r].method = "GET"
       /\ Len(reqs[r].path) = 3
       /\ Responded(r)
       /\ Body(r).kind = "user"
       /\ Body(r).v.id = reqs[r].path[3]

\* C3: when the store call of a handler fails the handler writes no response,
\* and the request is answered with a server error.
C3_FailedCallAnswered500 ==
    \A r \in Requests :
       /\ reqs[r].state = "rejected" => reqs[r].responses = <<>>
       /\ reqs[r].state \in {"errored", "unhandled"} =>
             reqs[r].responses = <<ServerError>>

\* C4 as stated: the bound (method, path) pairs are those of the HTTP surface
\* table, under /users.
C4_BoundUnderUsers ==
    \A a \in BoundApps :
       BoundPairs(a) = {<<row.method, row.path>> : row \in HttpSurface}
\* C4: the bound (method, path) pairs are the ten of the HTTP surface table
\* under /api/users, and a request matching one of them is dispatched to the
\* handler that calls the store operation of the same row, and to no other.
C4_BoundUnderApiUsers ==
    /\ \A a \in BoundApps :
          BoundPairs(a) = {<<row.method, row.path>> : row \in ApiSurface}
    /\ \A r \in Requests :
          /\ reqs[r].app \in BoundApps
          /\ Len(reqs[r].calls) = 1
          /\ reqs[r].calls[1].op = RowOf(reqs[r].method, reqs[r].path).op
C4_Witness ==
    \E r \in Requests :
       /\ reqs[r].method = "GET"
       /\ reqs[r].path = <<"api", "users", "type", "standard">>
       /\ reqs[r].handler = "findUsersByType"
       /\ Responded(r)
       /\ Body(r).v # {}

\* C8: the controller orders nothing between requests in flight: whenever
\* the store calls of two requests are pending, either can take effect next,
\* and whenever two calls have resolved, either response can be written next.
C8_NoOrdering ==
    \A r \in Requests :
       /\ reqs[r].state = "pending" => ENABLED DaoResolve(r)
       /\ reqs[r].state = "resolved" => ENABLED ThenCallback(r)
\* DELETE /api/users arrived first, POST /api/users second; the create took
\* effect first, so the store is empty, and the POST was answered first.
C8_Witness ==
    /\ Len(reqs) >= 2
    /\ reqs[1].method = "DELETE" /\ reqs[1].path = UsersPath
    /\ reqs[2].method = "POST"
    /\ Responded(1) /\ Responded(2)
    /\ Pos("start", 2) < Pos("effect", 1)
    /\ Pos("effect", 2) < Pos("effect", 1)
    /\ Pos("end", 2) < Pos("end", 1)
    /\ store = {}

(* ---------------------- one request after another ---------------------- *)

Is(r, method, path) == reqs[r].method = method /\ reqs[r].path = path
\* Request g started after request d was answered.
Follows(g, d) == Responded(d) /\ Pos("end", d) < Pos("start", g)
\* The store call of q succeeded between those of d and g.
Intervenes(q, d, g) ==
    /\ reqs[q].state \in {"resolved", "responded"}
    /\ Pos("effect", d) < Pos("effect", q)
    /\ Pos("effect", q) < Pos("effect", g)
\* q ended before d started or started after g ended.
Outside(q, d, g) ==
    \/ 0 < Pos("end", q) /\ Pos("end", q) < Pos("start", d)
    \/ 0 < Pos("end", g) /\ Pos("end", g) < Pos("start", q)
\* Request q changes or removes user u when its store call succeeds.
Mutates(q, u) ==
    /\ reqs[q].method \in {"PUT", "DELETE"}
    /\ \/ reqs[q].path = UsersPath
       \/ reqs[q].path = UsersPath \o <<u.id>>
       \/ reqs[q].path = UsersPath \o <<"username", u.username, "delete">>
       \/ reqs[q].path = UsersPath \o <<"business", u.restaurant>>

\* C5: a DELETE /api/users that was answered, followed by a GET /api/users
\* started afterwards, with no other request in flight or in between, returns
\* the empty sequence.
C5_DeleteAllThenFindAll ==
    \A d \in Requests, g \in Requests :
       ( /\ Is(d, "DELETE", UsersPath)
         /\ Is(g, "GET", UsersPath)
         /\ Follows(g, d)
         /\ Responded(g)
         /\ \A q \in Requests \ {d, g} : Outside(q, d, g) )
       => Body(g) = Users({})
C5_Witness ==
    \E d \in Requests, g \in Requests :
       /\ Is(d, "DELETE", UsersPath)
       /\ Is(g, "GET", UsersPath)
       /\ Follows(g, d)
       /\ Responded(g)
       /\ Body(d) = Status(2)
       /\ Body(g) = Users({})
       /\ \E q \in Requests : Is(q, "GET", UsersPath) /\ Follows(d, q) /\ Body(q).v # {}

\* C6: POST /api/users with body B returns B's fields and an identity the
\* store assigned, and a following GET /api/users/{that id}, with no
\* mutation of that record in between, returns the same record.
C6_CreateRoundTrip ==
    \A p \in Requests :
       (reqs[p].method = "POST" /\ Responded(p)) =>
          /\ Body(p).kind = "user"
          /\ DOMAIN Body(p).v = {"id", "username", "type", "restaurant"}
          /\ \A f \in DOMAIN reqs[p].body : Body(p).v[f] = reqs[p].body[f]
          /\ \A g \in Requests :
                ( /\ Is(g, "GET", UsersPath \o <<Body(p).v.id>>)
                  /\ Follows(g, p)
                  /\ Responded(g)
                  /\ \A q \in Requests \ {p, g} :
                        ~(Intervenes(q, p, g) /\ Mutates(q, Body(p).v)) )
                => Body(g) = Body(p)
C6_Witness ==
    \E p \in Requests, g \in Requests, q \in Requests :
       /\ reqs[p].method = "POST" /\ Responded(p)
       /\ Is(g, "GET", UsersPath \o <<Body(p).v.id>>)
       /\ Follows(g, p)
       /\ Responded(g)
       /\ Body(g) = Body(p)
       /\ Intervenes(q, p, g) /\ reqs[q].method = "PUT" /\ ~Mutates(q, Body(p).v)

\* u: the username a DELETE by username names; t: the type a GET by type names.
IsDeleteByUsername(d, u) == Is(d, "DELETE", UsersPath \o <<"username", u, "delete">>)
IsFindByType(g, t) == Is(g, "GET", UsersPath \o <<"type", t>>)

\* C7 as stated: after an answered DELETE by username u, a following GET by
\* type with no create in between returns no user whose username is u.
C7_NoCreateInBetween ==
    \A d \in Requests, g \in Requests : \A u \in Usernames, t \in Types :
       ( /\ IsDeleteByUsername(d, u)
         /\ IsFindByType(g, t)
         /\ Follows(g, d)
         /\ Responded(g)
         /\ \A q \in Requests \ {d, g} :
               ~(Intervenes(q, d, g) /\ reqs[q].method = "POST") )
       => \A x \in Body(g).v : x.username # u
\* C7: after an answered DELETE by username u, a following GET by type with
\* no create and no update in between returns no user whose username is u.
C7_NoCreateOrUpdateInBetween ==
    \A d \in Requests, g \in Requests : \A u \in Usernames, t \in Types :
       ( /\ IsDeleteByUsername(d, u)
         /\ IsFindByType(g, t)
         /\ Follows(g, d)
         /\ Responded(g)
         /\ \A q \in Requests \ {d, g} :
               ~(Intervenes(q, d, g) /\ reqs[q].method \in {"POST", "PUT"}) )
       => \A x \in Body(g).v : x.username # u
\* A user named bob of type standard is deleted; the users of type standard
\* that remain are returned.
C7_Witness ==
    \E d \in Requests, g \in Requests :
       /\ IsDeleteByUsername(d, "bob")
       /\ IsFindByType(g, "standard")
       /\ Follows(g, d)
       /\ Responded(g)
       /\ Body(d) = Status(1)
       /\ Body(g).v # {}
       /\ \A x \in Body(g).v : x.username # "bob"
====
